---- MODULE Spec2Model ----
(***************************************************************************)
(* Model of worm_scraper.go: the table-of-contents classifier, the         *)
(* per-chapter fetch/parse/retry goroutines, the completion barrier on the *)
(* unbuffered channel `done`, the assembly of Worm.md and the pandoc call. *)
(*                                                                         *)
(* Go strings are sequences of one-character strings, so that slicing,     *)
(* prefix tests and strings.Replace are computed as the code computes them.*)
(***************************************************************************)
EXTENDS Integers, Sequences, FiniteSets, TLC

(***************************************************************************)
(* Program constants.                                                      *)
(***************************************************************************)
MainSite == "https://parahumans.wordpress.com/"

\* The bound of `if ch.Retries > 3`.
MaxRetries == 3

\* Chapter literal of the manual insertion.
MissingTitle == <<"E",".","2">>
MissingUrl == <<"h","t","t","p","s",":","/","/","p","a","r","a","h","u","m","a","n","s",".","w","o","r","d","p","r","e","s","s",".","c","o","m","/","2","0","1","3","/","1","1","/","0","5","/","t","e","n","e","r","a","l","-","e","-","2","/">>

\* The separator paragraph and the indent of a special block.
Separator == <<"-","-","-","-","-","-","-","-","-","-">>
Indent == <<" "," "," "," ">>

Min(S) == CHOOSE x \in S : \A y \in S : x <= y

(***************************************************************************)
(* package strings / regexp, on sequences of characters.                   *)
(***************************************************************************)
HasPrefix(s, prefix) ==
    /\ Len(s) >= Len(prefix)
    /\ SubSeq(s, 1, Len(prefix)) = prefix

\* The positions at which old occurs in s.
Occurrences(s, old) ==
    {i \in 1..(Len(s) - Len(old) + 1) : SubSeq(s, i, i + Len(old) - 1) = old}

\* The non-overlapping instances of old in s replaced by new, scanning left
\* to right.
RECURSIVE ReplaceFrom(_, _, _)
ReplaceFrom(s, old, new) ==
    LET at == Occurrences(s, old)
    IN  IF at = {} THEN s
        ELSE LET i == Min(at)
             IN  SubSeq(s, 1, i - 1) \o new
                 \o ReplaceFrom(SubSeq(s, i + Len(old), Len(s)), old, new)

\* strings.Replace(s, old, new, -1) for a non-empty old.  The argument is
\* bound to its value first, so that a chain of calls works each one out once.
Replace(s, old, new) == CHOOSE r \in {ReplaceFrom(v, old, new) : v \in {s}} : TRUE

\* Index of the first occurrence of character c in s, 0 when there is none.
IndexOf(s, c) ==
    IF \E i \in 1..Len(s) : s[i] = c
    THEN CHOOSE i \in 1..Len(s) : s[i] = c /\ \A j \in 1..(i - 1) : s[j] # c
    ELSE 0

\* strings.Split(s, sep) for a one-character separator.
RECURSIVE Split(_, _)
Split(s, sep) ==
    LET i == IndexOf(s, sep)
    IN  IF i = 0 THEN <<s>>
        ELSE <<SubSeq(s, 1, i - 1)>> \o Split(SubSeq(s, i + 1, Len(s)), sep)

WhiteSpace == {" ", "\t", "\n", "\r"}

\* strings.TrimSpace.
TrimSpace(s) ==
    LET keep == {i \in 1..Len(s) : s[i] \notin WhiteSpace}
    IN  IF keep = {} THEN <<>>
        ELSE LET lo == CHOOSE i \in keep : \A j \in keep : i <= j
                 hi == CHOOSE i \in keep : \A j \in keep : i >= j
             IN  SubSeq(s, lo, hi)

Digits == {"0", "1", "2", "3", "4", "5", "6", "7", "8", "9"}

\* regexp `[0-9]+`, FindString: the leftmost, longest run of digits, "" when
\* there is none.
FindString(s) ==
    LET at == {i \in 1..Len(s) : s[i] \in Digits}
    IN  IF at = {} THEN <<>>
        ELSE LET lo == CHOOSE i \in at : \A j \in at : i <= j
                 hi == CHOOSE i \in lo..Len(s) :
                          /\ \A j \in lo..i : s[j] \in Digits
                          /\ (i = Len(s) \/ s[i + 1] \notin Digits)
             IN  SubSeq(s, lo, hi)

(***************************************************************************)
(* Paragraph.Format                                                        *)
(***************************************************************************)
Format(s) ==
    LET s1 == Replace(s, <<"<","e","m",">">>, <<"*">>)
        s2 == Replace(s1, <<"<","/","e","m",">">>, <<"*">>)
        s3 == Replace(s2, <<"<","i",">">>, <<"*">>)
        s4 == Replace(s3, <<"<","/","i",">">>, <<"*">>)
        \* Handle bold
        s5 == Replace(s4, <<"<","s","t","r","o","n","g",">">>, <<"*","*">>)
        s6 == Replace(s5, <<"<","/","s","t","r","o","n","g",">">>, <<"*","*">>)
        s7 == Replace(s6, <<"<","b",">">>, <<"*","*">>)
        s8 == Replace(s7, <<"<","/","b",">">>, <<"*","*">>)
        \* Remove new lines
        s9 == Replace(s8, <<"\n">>, <<>>)
        \* And random double spaces
    IN  Replace(s9, <<"."," "," ">>, <<"."," ">>)

(***************************************************************************)
(* Chapter, Arc and the classifier.                                        *)
(***************************************************************************)
NewChapter(title, url) ==
    [Title |-> title, Url |-> url, Tags |-> <<>>, Paragraphs |-> <<>>,
     Retries |-> 0, DatePosted |-> ""]

NewArc(identifier, title) ==
    [Identifier |-> identifier, Title |-> title, Chapters |-> <<>>]

\* ch.Title[:2] panics (slice bounds out of range) on a shorter title.
TitleTooShort(title) == Len(title) < 2

\* Chapter.WhichArc: the index in arcList of the first arc whose identifier is
\* the first two characters of the title with "." removed; 0 stands for the
\* fresh &Arc{} returned with the error, which is not in arcList.
WhichArc(title, arcList) ==
    LET key == Replace(SubSeq(title, 1, 2), <<".">>, <<>>)
        hit == {i \in 1..Len(arcList) : arcList[i].Identifier = key}
    IN  IF hit = {} THEN 0 ELSE Min(hit)

RECURSIVE ParseLines(_)
ParseLines(lines) ==
    IF lines = <<>> THEN <<>>
    ELSE LET line == TrimSpace(Head(lines))
             rest == ParseLines(Tail(lines))
         IN  IF HasPrefix(line, <<"A","r","c">>)
             THEN <<NewArc(FindString(line), line)>> \o rest
             ELSE IF HasPrefix(line, <<"E","p","i","l","o","g","u","e">>)
                  THEN <<NewArc(<<"E">>, line)>> \o rest
                  ELSE rest

\* ParseArcs: one Arc per line that begins with "Arc" or "Epilogue".
ParseArcs(s) == ParseLines(Split(s, "\n"))

\* AddChapters that puts each chapter at the front of its arc.
RECURSIVE AddChapters_Prepend(_, _)
AddChapters_Prepend(anchors, arcList) ==
    IF anchors = <<>> THEN [arcs |-> arcList, panic |-> FALSE]
    ELSE LET s == Head(anchors)
             title == Replace(TrimSpace(s.text), <<"\n">>, <<>>)
             ch == NewChapter(title, s.href)
         IN  IF title = <<>> THEN AddChapters_Prepend(Tail(anchors), arcList)
             ELSE IF TitleTooShort(title)
                  THEN [arcs |-> arcList, panic |-> TRUE]
                  ELSE LET a == WhichArc(title, arcList)
                       IN  IF a = 0
                           THEN AddChapters_Prepend(Tail(anchors), arcList)
                           ELSE AddChapters_Prepend(Tail(anchors),
                                    [arcList EXCEPT ![a].Chapters = <<ch>> \o @])

\* The callback of contents.Find(...).Each at lines 186-197, run over the
\* anchors in document order.  The result is the arcs and whether the loop
\* panicked on ch.Title[:2].
RECURSIVE AddChapters(_, _)
AddChapters(anchors, arcList) ==
    IF anchors = <<>> THEN [arcs |-> arcList, panic |-> FALSE]
    ELSE LET s == Head(anchors)
             title == Replace(TrimSpace(s.text), <<"\n">>, <<>>)
             ch == NewChapter(title, s.href)
         IN  IF title = <<>> THEN AddChapters(Tail(anchors), arcList)
             ELSE IF TitleTooShort(title)
                  THEN [arcs |-> arcList, panic |-> TRUE]
                  ELSE LET a == WhichArc(title, arcList)
                       IN  IF a = 0
                           THEN \* appended to the throwaway &Arc{}
                                AddChapters(Tail(anchors), arcList)
                           ELSE AddChapters(Tail(anchors),
                                    [arcList EXCEPT ![a].Chapters = Append(@, ch)])

\* a.Chapters[1+1:] panics when the slice, after the append, is shorter than 2.
InsertOutOfRange(chs) == Len(chs) + 1 < 2

\* InsertMissing that puts the chapter at index 0.
InsertMissing_Front(chs, c) == <<c>> \o chs

\* Lines 205-207 on one chapter slice: append, copy(a[2:], a[1:]), a[1] = c
\* (0-based), written with 1-based indices.
InsertMissing(chs, c) ==
    LET appended == Append(chs, c)
        copied == [j \in 1..Len(appended) |->
                      IF j >= 3 THEN appended[j - 1] ELSE appended[j]]
    IN  [copied EXCEPT ![2] = c]

(***************************************************************************)
(* The site: what goquery.NewDocument returns when a fetch succeeds.       *)
(* An element of `.entry-content > p` is its inner HTML, the number of <a> *)
(* nodes under it, and its attributes as <<name, value>> pairs.            *)
(***************************************************************************)
Element(html, links, attrs) == [html |-> html, links |-> links, attrs |-> attrs]

Page(title, tags, date, content) ==
    [title |-> title, tags |-> tags, date |-> date, content |-> content]

\* Selection.Attr(name): the value and whether the attribute exists.
Attr(s, name) ==
    IF \E p \in s.attrs : p[1] = name
    THEN [val |-> (CHOOSE p \in s.attrs : p[1] = name)[2], exists |-> TRUE]
    ELSE [val |-> "", exists |-> FALSE]

PadLeft == <<"padding-left", "30px">>
PadSmall == <<"padding-left", "10px">>
Centered == <<"text-align", "center">>
LeftAligned == <<"text-align", "left">>

PageA ==
    Page(<<"G","1",".","1">>, <<"Taylor", "Emma">>, "2011-06-11",
         << Element(<<"<","e","m",">","a","<","/","e","m",">","."," "," ","\n">>, 0, {}),
            Element(<<"<","a",">","N","<","/","a",">">>, 1, {}),
            Element(<<"x","x">>, 0, {Centered}),
            Element(<<"<","i",">","q","<","/","i",">">>, 0, {PadLeft}) >>)

\* A page with none of the expected elements.
PageB == Page(<<>>, <<>>, "", <<>>)

PageC ==
    Page(<<"E",".","1">>, <<"Scion">>, "2013-11-02",
         << Element(<<"b","o","t","h">>, 0, {PadLeft, Centered}),
            Element(<<"s","m","a","l","l">>, 0, {PadSmall, Centered}),
            Element(<<"<","a",">","L","<","/","a",">">>, 2, {Centered}),
            Element(<<"l","e","f","t">>, 0, {LeftAligned}) >>)

PageD ==
    Page(<<"E",".","2">>, <<"Teneral">>, "2013-11-05",
         << Element(<<"<","a",">","L","<","/","a",">","<","a",">","N","<","/","a",">">>, 2, {PadLeft}),
            Element(<<"."," "," "," ","<","b",">","F","<","/","b",">">>, 0, {}) >>)

UrlA == <<"h","t","t","p",":","/","/","w","/","a">>
UrlB == <<"h","t","t","p","s",":","/","/","w","/","b">>
UrlC == <<"h","t","t","p","s",":","/","/","w","/","c">>

Site == (UrlA :> PageA) @@ (UrlB :> PageB) @@ (UrlC :> PageC) @@ (MissingUrl :> PageD)

\* The document a successful goquery.NewDocument(url) returns.
NewDocument(url) == IF url \in DOMAIN Site THEN Site[url] ELSE PageB

(***************************************************************************)
(* The contents pages the run is tried on: the text of `.entry-content`    *)
(* and the anchors it holds, in document order.                            *)
(***************************************************************************)
Anchor(text, href) == [text |-> text, href |-> href]

\* Two arcs, chapters 1.1, 1.2 and E.1.
TwoArcs ==
    [text |-> <<"A","r","c"," ","1",":"," ","G","\n","E","p","i","l","o","g","u","e",":"," ","T">>,
     anchors |-> << Anchor(<<"1",".","1">>, UrlA), Anchor(<<"1",".","2">>, <<"w","/","b">>),
                    Anchor(<<"E",".","1">>, <<"w","/","c">>) >>]

\* Only an epilogue, with chapters E.1 and E.3; anchor texts with surrounding
\* space, an empty anchor and an anchor that matches no arc.
EpilogueOnly ==
    [text |-> <<" ","W","o","r","m","\n"," "," ","E","p","i","l","o","g","u","e",":"," ","T"," ","\n">>,
     anchors |-> << Anchor(<<" ","\n"," ">>, <<"w","/","x">>), Anchor(<<" ","E",".","1","\n">>, <<"w","/","c">>),
                    Anchor(<<"9",".","1">>, <<"w","/","z">>), Anchor(<<"E",".","3">>, <<"h","t","t","p",":","/","/","w","/","d">>) >>]

\* An epilogue line and no epilogue chapter.
EmptyEpilogue ==
    [text |-> <<"A","r","c"," ","1",":"," ","G","\n","E","p","i","l","o","g","u","e",":"," ","T">>,
     anchors |-> << Anchor(<<"1",".","1">>, UrlA) >>]

\* An anchor whose text is a single character.
ShortTitle ==
    [text |-> <<"E","p","i","l","o","g","u","e",":"," ","T">>,
     anchors |-> << Anchor(<<"E",".","1">>, <<"w","/","c">>), Anchor(<<"E">>, <<"w","/","x">>) >>]

Contents == {TwoArcs, EpilogueOnly, EmptyEpilogue, ShortTitle}

(***************************************************************************)
(* Chapter.Parse, the parts that compute.                                  *)
(***************************************************************************)
\* Lines 78-81.
NormalizeUrl(url) == IF HasPrefix(url, <<"h","t","t","p">>) THEN url ELSE <<"h","t","t","p","s",":","/","/">> \o url

\* Classify that takes any left padding for the 30px of a special block.
Classify_AnyPadding(s) ==
    LET st == s.html
        pad == Attr(s, "padding-left")
        align == Attr(s, "text-align")
    IN  IF pad.exists THEN Indent \o st
        ELSE IF align.exists /\ align.val = "center" THEN Separator
        ELSE st

\* Lines 109-122: the paragraph of one content element, before formatting.
Classify(s) ==
    LET st == s.html
        pad == Attr(s, "padding-left")
        align == Attr(s, "text-align")
    IN  IF pad.exists /\ pad.val = "30px" THEN Indent \o st
        ELSE IF align.exists /\ align.val = "center" THEN Separator
        ELSE st

\* EachParagraph without the check for previous/next links.
RECURSIVE EachParagraph_KeepLinks(_, _)
EachParagraph_KeepLinks(elements, paragraphs) ==
    IF elements = <<>> THEN paragraphs
    ELSE EachParagraph_KeepLinks(Tail(elements),
             Append(paragraphs, Format(Classify(Head(elements)))))

\* Lines 102-127: the callback over `.entry-content > p`, in document order.
RECURSIVE EachParagraph(_, _)
EachParagraph(elements, paragraphs) ==
    IF elements = <<>> THEN paragraphs
    ELSE LET s == Head(elements)
         IN  IF s.links > 0
             THEN EachParagraph(Tail(elements), paragraphs)
             ELSE EachParagraph(Tail(elements),
                                Append(paragraphs, Format(Classify(s))))

\* Lines 90-127: the chapter record after a successful fetch of doc.
Populate(ch, doc) ==
    [ch EXCEPT !.Title = doc.title,
               !.Tags = @ \o doc.tags,
               !.DatePosted = doc.date,
               !.Paragraphs = EachParagraph(doc.content, @)]

(***************************************************************************)
(* The flat document.  One record per f.WriteString call: the literal text *)
(* before and after, and the value written between them.                   *)
(***************************************************************************)
Write(k, pre, s, post) == [k |-> k, pre |-> pre, s |-> s, post |-> post]

Text(lit) == Write("text", lit, <<>>, "")

RECURSIVE WriteParagraphs(_)
WriteParagraphs(ps) ==
    IF ps = <<>> THEN <<>>
    ELSE <<Write("para", "", Head(ps), "\n\n")>> \o WriteParagraphs(Tail(ps))

\* Lines 257-273, for one chapter.
WriteChapter(chapter, flags) ==
    <<Text("\n\n"), Write("heading", "## ", chapter.Title, "\n\n")>>
    \o (IF flags.tags
        THEN <<Write("tags", "**Tags:** ", chapter.Tags, "  ")>> ELSE <<>>)
    \o (IF flags.date
        THEN <<Write("date", "**Date:** ", <<chapter.DatePosted>>, "  ")>> ELSE <<>>)
    \o (IF flags.link
        THEN <<Write("link", "**Link:** ", chapter.Url, "  ")>> ELSE <<>>)
    \o <<Text("\n\n")>>
    \o WriteParagraphs(chapter.Paragraphs)

RECURSIVE WriteChapters(_, _)
WriteChapters(chs, flags) ==
    IF chs = <<>> THEN <<>>
    ELSE WriteChapter(Head(chs), flags) \o WriteChapters(Tail(chs), flags)

\* Lines 254-275.
RECURSIVE WriteArcs(_, _, _)
WriteArcs(arcList, pageBreak, flags) ==
    IF arcList = <<>> THEN <<>>
    ELSE <<Write("arc", pageBreak, Head(arcList).Title, "")>>
         \o WriteChapters(Head(arcList).Chapters, flags)
         \o WriteArcs(Tail(arcList), pageBreak, flags)

\* Lines 249-251.
Cover == <<Text("# Worm\n\n"), Text("By Wildbow\n\n"), Write("text", "Website: ", <<MainSite>>, "")>>

\* Lines 163-168: the four boolean flags of the command line.
Flags == [tags : BOOLEAN, date : BOOLEAN, link : BOOLEAN, pdf : BOOLEAN]

NoFlags == [tags |-> FALSE, date |-> FALSE, link |-> FALSE, pdf |-> FALSE]

NoFile == [exists |-> FALSE, content |-> <<>>]
OldFile == [exists |-> TRUE, content |-> <<Text("an earlier Worm.md")>>]

(***************************************************************************)
(* State.                                                                  *)
(***************************************************************************)
VARIABLES
    mainpc,         \* where app.Action is
    toc,            \* the contents page the site serves
    arcs,           \* arcs: the Arc records with their Chapters
    launched,       \* how many `go arc.Chapters[i].Parse(done)` have run
    chapters,       \* chapters (line 210)
    totalChapters,  \* totalChapters (line 222)
    done,           \* the channel: "nil", "open" or "closed"
    tasks,          \* per chapter slot <<a, i>>: the goroutines started on it
    panicked,       \* "" or why the process died
    file,           \* Worm.md
    PageBreak,      \* PageBreak (line 246)
    cmdText,        \* cmdText (line 279)
    ebook,          \* the file pandoc produced, "" when none
    context,        \* the command-line flags that are set, once they are read
    skeleton,       \* history: arcs as they stood when the launch loop began
    sent,           \* history: per slot, completed sends on done
    para,           \* a paragraph under Format (formatter runs)
    first,          \* its value after the first Format
    formats,        \* how many times Format was applied to para
    elements,       \* the content elements of a page (parser runs)
    paragraphs,     \* the paragraph slice built from them
    parsed,         \* whether the callback has run over elements
    failures        \* how many fetches the network has failed in this run

vars ==
    <<mainpc, toc, arcs, launched, chapters, totalChapters, done, tasks,
      panicked, file, PageBreak, cmdText, ebook, context, skeleton, sent, para,
      first, formats, elements, paragraphs, parsed, failures>>

mainVars == <<mainpc, toc, launched, chapters, totalChapters, done, file,
              PageBreak, cmdText, ebook, context, skeleton>>

\* The network fails at most MaxFailures fetches in one run.
MaxFailures == 5

pureVars == <<para, first, formats, elements, paragraphs, parsed>>

\* The chapter slots in the order of the launch loop (lines 212-217).
RECURSIVE SlotsFrom(_, _)
SlotsFrom(arcList, a) ==
    IF a > Len(arcList) THEN <<>>
    ELSE [i \in 1..Len(arcList[a].Chapters) |-> <<a, i>>] \o SlotsFrom(arcList, a + 1)

Slots(arcList) == SlotsFrom(arcList, 1)

ChapterAt(s) == arcs[s[1]].Chapters[s[2]]

\* A goroutine that can still run or is blocked on its send.
Live == {"start", "fetch", "send"}

Init ==
    /\ mainpc = "contents"
    /\ toc \in Contents
    /\ arcs = <<>>
    /\ launched = 0
    /\ chapters = 0
    /\ totalChapters = 0
    /\ done = "nil"
    /\ tasks = <<>>
    /\ panicked = ""
    /\ file \in {NoFile, OldFile}
    /\ PageBreak = ""
    /\ cmdText = <<>>
    /\ ebook = ""
    /\ context = NoFlags
    /\ skeleton = <<>>
    /\ sent = <<>>
    /\ para = <<>>
    /\ first = <<>>
    /\ formats = 0
    /\ elements = <<>>
    /\ paragraphs = <<>>
    /\ parsed = FALSE
    /\ failures = 0

(***************************************************************************)
(* app.Action, the main flow.                                              *)
(***************************************************************************)
\* Lines 177-180.
FetchContents ==
    /\ panicked = "" /\ mainpc = "contents"
    /\ \E ok \in BOOLEAN :
          IF ok THEN mainpc' = "arcs" /\ panicked' = panicked
                ELSE panicked' = "contents" /\ mainpc' = mainpc
    /\ UNCHANGED <<toc, arcs, launched, chapters, totalChapters, done, tasks,
                   file, PageBreak, cmdText, ebook, context, skeleton, sent, pureVars, failures>>

\* Line 183.
ParseContents ==
    /\ panicked = "" /\ mainpc = "arcs"
    /\ arcs' = ParseArcs(toc.text)
    /\ mainpc' = "anchors"
    /\ UNCHANGED <<toc, launched, chapters, totalChapters, done, tasks, panicked,
                   file, PageBreak, cmdText, ebook, context, skeleton, sent, pureVars, failures>>

\* Lines 186-197.
ClassifyAnchors ==
    /\ panicked = "" /\ mainpc = "anchors"
    /\ LET r == AddChapters(toc.anchors, arcs)
       IN  /\ arcs' = r.arcs
           /\ IF r.panic THEN panicked' = "title" /\ mainpc' = mainpc
                         ELSE panicked' = panicked /\ mainpc' = "insert"
    /\ UNCHANGED <<toc, launched, chapters, totalChapters, done, tasks,
                   file, PageBreak, cmdText, ebook, context, skeleton, sent, pureVars, failures>>

\* Lines 199-211: the manual insertion, then chapters := 0 and make(chan bool).
InsertChapter ==
    /\ panicked = "" /\ mainpc = "insert"
    /\ LET c == NewChapter(MissingTitle, MissingUrl)
           a == WhichArc(c.Title, arcs)
           chs == IF a = 0 THEN <<>> ELSE arcs[a].Chapters
       IN  IF InsertOutOfRange(chs)
           THEN /\ panicked' = "insert"
                /\ arcs' = IF a = 0 THEN arcs
                           ELSE [arcs EXCEPT ![a].Chapters = Append(chs, c)]
                /\ UNCHANGED <<mainpc, chapters, done, skeleton>>
           ELSE /\ arcs' = [arcs EXCEPT ![a].Chapters = InsertMissing(chs, c)]
                /\ skeleton' = arcs'
                /\ chapters' = 0
                /\ done' = "open"
                /\ mainpc' = "launch"
                /\ panicked' = panicked
    /\ UNCHANGED <<toc, launched, totalChapters, tasks, file, PageBreak,
                   cmdText, ebook, context, sent, pureVars, failures>>

\* Launch whose go statement always names the first slot.
Launch_SameSlot ==
    /\ panicked = "" /\ mainpc = "launch"
    /\ launched < Len(Slots(arcs))
    /\ LET s == Slots(arcs)[1]
       IN  IF s \in DOMAIN tasks
           THEN tasks' = [tasks EXCEPT ![s] = Append(@, "start")] /\ sent' = sent
           ELSE tasks' = (s :> <<"start">>) @@ tasks /\ sent' = (s :> 0) @@ sent
    /\ chapters' = chapters + 1
    /\ launched' = launched + 1
    /\ UNCHANGED <<mainpc, toc, arcs, totalChapters, done, panicked, file,
                   PageBreak, cmdText, ebook, context, skeleton, pureVars, failures>>

\* Lines 213-216, one iteration: chapters++ and the go statement.
Launch ==
    /\ panicked = "" /\ mainpc = "launch"
    /\ launched < Len(Slots(arcs))
    /\ LET s == Slots(arcs)[launched + 1]
       IN  /\ tasks' = (s :> <<"start">>) @@ tasks
           /\ sent' = (s :> 0) @@ sent
    /\ chapters' = chapters + 1
    /\ launched' = launched + 1
    /\ UNCHANGED <<mainpc, toc, arcs, totalChapters, done, panicked, file,
                   PageBreak, cmdText, ebook, context, skeleton, pureVars, failures>>

\* Lines 219-222: the loop is over.
StartBarrier ==
    /\ panicked = "" /\ mainpc = "launch"
    /\ launched = Len(Slots(arcs))
    /\ totalChapters' = chapters
    /\ mainpc' = "barrier"
    /\ UNCHANGED <<toc, arcs, launched, chapters, done, tasks, panicked, file,
                   PageBreak, cmdText, ebook, context, skeleton, sent, pureVars, failures>>

(***************************************************************************)
(* Chapter.Parse as a goroutine.  tasks[s][k] is where the k-th goroutine  *)
(* started on slot s is: "start" (created by the go statement), "fetch"    *)
(* (inside goquery.NewDocument), "send" (blocked on done <- true), "done"  *)
(* (returned after the send), "retried" (returned after `go ch.Parse`),    *)
(* "panic" (took the panic of line 75).                                    *)
(***************************************************************************)
SetPc(s, k, pc) == [tasks EXCEPT ![s][k] = pc]

At(s, k, pc) ==
    /\ panicked = ""
    /\ s \in DOMAIN tasks
    /\ k \in DOMAIN tasks[s]
    /\ tasks[s][k] = pc

\* TooManyRetries that lets one more attempt through.
TooManyRetries_Late(ch) == ch.Retries > MaxRetries + 1

\* TooManyRetries with the comparison off by one.
TooManyRetries_OffByOne(ch) == ch.Retries >= MaxRetries

\* Line 74.
TooManyRetries(ch) == ch.Retries > MaxRetries

\* Lines 74-82: the check, the URL fix, and the fetch is issued.
TaskStart(s, k) ==
    /\ At(s, k, "start")
    /\ IF TooManyRetries(ChapterAt(s))
       THEN /\ panicked' = "retries"
            /\ tasks' = SetPc(s, k, "panic")
            /\ arcs' = arcs
       ELSE /\ arcs' = [arcs EXCEPT ![s[1]].Chapters[s[2]].Url = NormalizeUrl(@)]
            /\ tasks' = SetPc(s, k, "fetch")
            /\ panicked' = panicked
    /\ UNCHANGED <<mainVars, sent, pureVars, failures>>

\* FetchFail that reads the tags out of the document before it looks at the
\* error: a failed attempt leaves tags in the record.
FetchFail_KeepsTags(s, k) ==
    /\ At(s, k, "fetch")
    /\ failures < MaxFailures
    /\ failures' = failures + 1
    /\ arcs' = [arcs EXCEPT ![s[1]].Chapters[s[2]] =
                    [@ EXCEPT !.Retries = @ + 1,
                              !.Tags = @ \o NewDocument(arcs[s[1]].Chapters[s[2]].Url).tags]]
    /\ tasks' = [tasks EXCEPT ![s] = Append([@ EXCEPT ![k] = "retried"], "start")]
    /\ UNCHANGED <<mainVars, panicked, sent, pureVars>>

\* FetchFail without the go statement of line 86: the chain ends on the
\* first failure.
FetchFail_NoRespawn(s, k) ==
    /\ At(s, k, "fetch")
    /\ failures < MaxFailures
    /\ failures' = failures + 1
    /\ arcs' = [arcs EXCEPT ![s[1]].Chapters[s[2]].Retries = @ + 1]
    /\ tasks' = SetPc(s, k, "retried")
    /\ UNCHANGED <<mainVars, panicked, sent, pureVars>>

\* FetchFail without the return of line 87: the failed attempt goes on to the
\* send of line 130 while its replacement runs.
FetchFail_NoReturn(s, k) ==
    /\ At(s, k, "fetch")
    /\ failures < MaxFailures
    /\ failures' = failures + 1
    /\ arcs' = [arcs EXCEPT ![s[1]].Chapters[s[2]].Retries = @ + 1]
    /\ tasks' = [tasks EXCEPT ![s] = Append([@ EXCEPT ![k] = "send"], "start")]
    /\ UNCHANGED <<mainVars, panicked, sent, pureVars>>

\* Lines 83-88: the fetch failed; count it, start the next goroutine, return.
FetchFail(s, k) ==
    /\ At(s, k, "fetch")
    /\ failures < MaxFailures
    /\ failures' = failures + 1
    /\ arcs' = [arcs EXCEPT ![s[1]].Chapters[s[2]].Retries = @ + 1]
    /\ tasks' = [tasks EXCEPT ![s] = Append([@ EXCEPT ![k] = "retried"], "start")]
    /\ UNCHANGED <<mainVars, panicked, sent, pureVars>>

\* FetchOk that appends the filled-in record to its arc as it completes and
\* leaves its slot a placeholder.
FetchOk_AppendResult(s, k) ==
    /\ At(s, k, "fetch")
    /\ arcs' = [arcs EXCEPT ![s[1]].Chapters =
                    Append(@, Populate(@[s[2]], NewDocument(@[s[2]].Url)))]
    /\ tasks' = SetPc(s, k, "send")
    /\ UNCHANGED <<mainVars, panicked, sent, pureVars, failures>>

\* Lines 90-127: the fetch succeeded; the record is filled in.  The goroutine
\* is then at the send of line 130.
FetchOk(s, k) ==
    /\ At(s, k, "fetch")
    /\ arcs' = [arcs EXCEPT ![s[1]].Chapters[s[2]] =
                                Populate(@, NewDocument(@.Url))]
    /\ tasks' = SetPc(s, k, "send")
    /\ UNCHANGED <<mainVars, panicked, sent, pureVars, failures>>

\* BarrierDone that lets the main flow go with one chapter outstanding.
BarrierDone_OneEarly(n) == n <= 1

\* Line 229.
BarrierDone(n) == n = 0

\* Line 130 meeting lines 225-235: done is unbuffered, so the send completes
\* with the receive of the select; the main flow then counts down and, at
\* zero, closes the channel and leaves the loop.  A send on the channel once
\* line 231 has closed it is a run-time panic.
Receive(s, k) ==
    /\ At(s, k, "send")
    /\ IF done = "closed"
       THEN /\ panicked' = "closed"
            /\ tasks' = SetPc(s, k, "panic")
            /\ UNCHANGED <<sent, chapters, done, mainpc>>
       ELSE /\ mainpc = "barrier" /\ done = "open"
            /\ tasks' = SetPc(s, k, "done")
            /\ sent' = [sent EXCEPT ![s] = @ + 1]
            /\ chapters' = chapters - 1
            /\ IF BarrierDone(chapters')
               THEN done' = "closed" /\ mainpc' = "open"
               ELSE done' = done /\ mainpc' = mainpc
            /\ panicked' = panicked
    /\ UNCHANGED <<toc, arcs, launched, totalChapters, file,
                   PageBreak, cmdText, ebook, context, skeleton, pureVars, failures>>

\* OpenFile without O_EXCL: an existing Worm.md is opened and written over.
OpenFile_Overwrite ==
    /\ panicked = "" /\ mainpc = "open"
    /\ file' = [exists |-> TRUE, content |-> IF file.exists THEN file.content ELSE <<>>]
    /\ PageBreak' = "\n\n"
    /\ mainpc' = "write"
    /\ UNCHANGED <<toc, arcs, launched, chapters, totalChapters, done, tasks,
                   panicked, cmdText, ebook, context, skeleton, sent, pureVars, failures>>

\* Lines 238-246: O_CREATE|O_EXCL fails on an existing Worm.md.
OpenFile ==
    /\ panicked = "" /\ mainpc = "open"
    /\ IF file.exists
       THEN /\ panicked' = "exists"
            /\ UNCHANGED <<file, PageBreak, mainpc>>
       ELSE /\ file' = [exists |-> TRUE, content |-> <<>>]
            /\ PageBreak' = "\n\n"
            /\ mainpc' = "write"
            /\ panicked' = panicked
    /\ UNCHANGED <<toc, arcs, launched, chapters, totalChapters, done, tasks,
                   cmdText, ebook, context, skeleton, sent, pureVars, failures>>

Assemble_PdfDropsParagraphs(flags) ==
    Cover \o WriteArcs(IF flags.pdf
                       THEN [a \in DOMAIN arcs |->
                               [arcs[a] EXCEPT !.Chapters =
                                  [c \in DOMAIN @ |-> [@[c] EXCEPT !.Paragraphs = <<>>]]]]
                       ELSE arcs,
                       PageBreak, flags)

\* Lines 249-275 under the flags with-tags, with-date and with-link. The flag
\* pdf is not consulted there: PageBreak still holds the value of line 246.
Assemble(flags) == Cover \o WriteArcs(arcs, PageBreak, flags)

\* The flags are first consulted at line 259; a run has one value of them.
WriteDocument ==
    /\ panicked = "" /\ mainpc = "write"
    /\ \E flags \in Flags :
          /\ context' = flags
          /\ file' = [file EXCEPT !.content = @ \o Assemble(flags)]
    /\ mainpc' = "convert"
    /\ UNCHANGED <<toc, arcs, launched, chapters, totalChapters, done, tasks,
                   panicked, PageBreak, cmdText, ebook, skeleton, sent, pureVars, failures>>

\* Lines 279-283: the arguments handed to pandoc.
CmdText(pdf) ==
    IF pdf THEN <<"Worm.md", "-o", "Worm.pdf">>
    ELSE <<"-S", "Worm.md", "--epub-chapter-level", "2", "-o", "Worm.epub">>

Convert_AlwaysRemove ==
    /\ panicked = "" /\ mainpc = "convert"
    /\ cmdText' = CmdText(context.pdf)
    /\ PageBreak' = IF context.pdf
                    THEN "<div style=\"page-break-after: always;\"></div>"
                    ELSE PageBreak
    /\ \E ok \in BOOLEAN :
          /\ file' = NoFile
          /\ ebook' = IF ok THEN cmdText'[Len(cmdText')] ELSE ebook
    /\ mainpc' = "exit"
    /\ UNCHANGED <<toc, arcs, launched, chapters, totalChapters, done, tasks,
                   panicked, context, skeleton, sent, pureVars, failures>>

\* Lines 278-291; ok is whether pandoc ran without error.
Convert ==
    /\ panicked = "" /\ mainpc = "convert"
    /\ cmdText' = CmdText(context.pdf)
    /\ PageBreak' = IF context.pdf
                    THEN "<div style=\"page-break-after: always;\"></div>"
                    ELSE PageBreak
    /\ \E ok \in BOOLEAN :
          IF ok
          THEN /\ file' = NoFile
               /\ ebook' = cmdText'[Len(cmdText')]
          ELSE UNCHANGED <<file, ebook>>
    /\ mainpc' = "exit"
    /\ UNCHANGED <<toc, arcs, launched, chapters, totalChapters, done, tasks,
                   panicked, context, skeleton, sent, pureVars, failures>>

Next ==
    \/ FetchContents
    \/ ParseContents
    \/ ClassifyAnchors
    \/ InsertChapter
    \/ Launch
    \/ StartBarrier
    \/ \E s \in DOMAIN tasks : \E k \in DOMAIN tasks[s] : TaskStart(s, k)
    \/ \E s \in DOMAIN tasks : \E k \in DOMAIN tasks[s] : FetchFail(s, k)
    \/ \E s \in DOMAIN tasks : \E k \in DOMAIN tasks[s] : FetchOk(s, k)
    \/ \E s \in DOMAIN tasks : \E k \in DOMAIN tasks[s] : Receive(s, k)
    \/ OpenFile
    \/ WriteDocument
    \/ Convert

Spec == Init /\ [][Next]_vars

\* The run under a fair scheduler and fetches that return: a step that can be
\* taken (a runnable goroutine, a fetch in flight, a rendezvous on done, the
\* next statement of the main flow) is not put off forever.
\* It is followed on the contents page of three chapters.
FairInit == Init /\ toc = EpilogueOnly

FairSpec == FairInit /\ [][Next]_vars /\ WF_vars(Next)

(***************************************************************************)
(* Paragraph.Format on its own: p.Format() applied to one paragraph, and   *)
(* applied again to the result.                                            *)
(***************************************************************************)
\* How many pieces an input paragraph is put together from.
MaxPieces == 3

Pieces ==
    { <<"<","e","m",">">>, <<"<","/","e","m",">">>, <<"<","i",">">>, <<"<","/","i",">">>, <<"<","b",">">>, <<"<","/","b",">">>, <<"<","s","t","r","o","n","g",">">>,
      <<"<","/","s","t","r","o","n","g",">">>, <<"\n">>, <<".">>, <<" ">>, <<" "," ">>, <<"a">>, <<"<","e">>, <<"m",">">> }

RECURSIVE Concatenations(_)
Concatenations(n) ==
    IF n = 0 THEN {<<>>}
    ELSE LET shorter == Concatenations(n - 1)
         IN  shorter \cup {p \o q : p \in shorter, q \in Pieces}

\* The main flow and the site, parked: only the pure runs move.
Parked ==
    /\ mainpc = "contents"
    /\ toc = TwoArcs
    /\ arcs = <<>>
    /\ launched = 0
    /\ chapters = 0
    /\ totalChapters = 0
    /\ done = "nil"
    /\ tasks = <<>>
    /\ panicked = ""
    /\ file = NoFile
    /\ PageBreak = ""
    /\ cmdText = <<>>
    /\ ebook = ""
    /\ context = NoFlags
    /\ skeleton = <<>>
    /\ sent = <<>>
    /\ failures = 0

FormatInit ==
    /\ Parked
    /\ para \in Concatenations(MaxPieces)
    /\ first = <<>>
    /\ formats = 0
    /\ elements = <<>>
    /\ paragraphs = <<>>
    /\ parsed = FALSE

\* para.Format(), for the first and for the second time.
ApplyFormat ==
    /\ formats < 2
    /\ para' = Format(para)
    /\ first' = IF formats = 0 THEN para' ELSE first
    /\ formats' = formats + 1
    /\ UNCHANGED <<mainVars, arcs, tasks, panicked, sent, failures, elements,
                   paragraphs, parsed>>

SpecFormat == FormatInit /\ [][ApplyFormat]_vars

(***************************************************************************)
(* The paragraph callback on its own, over every short list of content     *)
(* elements.                                                               *)
(***************************************************************************)
\* How many content elements a page of the parser runs holds.
MaxElements == 2

Paddings == {{}, {PadLeft}, {PadSmall}}
Alignments == {{}, {Centered}, {LeftAligned}}

ElementPool ==
    { Element(html, links, pad \cup align) :
        html \in {<<"<","b",">","x","<","/","b",">">>, <<"y","."," "," ","z">>}, links \in {0, 1},
        pad \in Paddings, align \in Alignments }

RECURSIVE ContentsUpTo(_)
ContentsUpTo(n) ==
    IF n = 0 THEN {<<>>}
    ELSE LET shorter == ContentsUpTo(n - 1)
         IN  shorter \cup {Append(c, e) : c \in shorter, e \in ElementPool}

ParseInit ==
    /\ Parked
    /\ para = <<>>
    /\ first = <<>>
    /\ formats = 0
    /\ elements \in ContentsUpTo(MaxElements)
    /\ paragraphs = <<>>
    /\ parsed = FALSE

\* doc.Find(".entry-content > p").Each(...) on a chapter without paragraphs.
ParseContent ==
    /\ ~parsed
    /\ paragraphs' = EachParagraph(elements, paragraphs)
    /\ parsed' = TRUE
    /\ UNCHANGED <<mainVars, arcs, tasks, panicked, sent, failures, para, first,
                   formats, elements>>

SpecParse == ParseInit /\ [][ParseContent]_vars

(***************************************************************************)
(* The classifier on its own (lines 177-211), over every short contents    *)
(* page: marker lines with a repeated identifier, an identifier of three   *)
(* digits and one without digits, and anchors that match, that match no    *)
(* arc, and one of a single character.                                     *)
(***************************************************************************)
\* How many lines the text of a contents page holds, and how many anchors.
MaxLines == 2
MaxAnchors == 2

LinePool == {<<"A","r","c"," ","1",":"," ","G">>, <<"A","r","c"," ","1",":"," ","H">>, <<"A","r","c"," ","1","0","0",":"," ","K">>, <<"A","r","c"," ","X">>, <<"E","p","i","l","o","g","u","e",":"," ","T">>}
TitlePool == {<<"1",".","1">>, <<"E",".","1">>, <<".",".","a">>, <<"1","0","0",".","1">>, <<"x">>}

\* The href of the i-th anchor of a page.
Hrefs == <<<<"w","/","1">>, <<"w","/","2">>, <<"w","/","3">>, <<"w","/","4">>, <<"w","/","5">>>>

SeqsUpTo(S, n) == UNION {[1..k -> S] : k \in 0..n}

RECURSIVE JoinLines(_)
JoinLines(lines) ==
    IF lines = <<>> THEN <<>>
    ELSE IF Len(lines) = 1 THEN lines[1]
    ELSE Head(lines) \o <<"\n">> \o JoinLines(Tail(lines))

WideContents ==
    { [text |-> JoinLines(lines),
       anchors |-> [i \in DOMAIN titles |-> Anchor(titles[i], Hrefs[i])]] :
        lines \in SeqsUpTo(LinePool, MaxLines),
        titles \in SeqsUpTo(TitlePool, MaxAnchors) }

ClassifyInit ==
    /\ mainpc = "contents"
    /\ toc \in WideContents
    /\ arcs = <<>>
    /\ launched = 0
    /\ chapters = 0
    /\ totalChapters = 0
    /\ done = "nil"
    /\ tasks = <<>>
    /\ panicked = ""
    /\ file = NoFile
    /\ PageBreak = ""
    /\ cmdText = <<>>
    /\ ebook = ""
    /\ context = NoFlags
    /\ skeleton = <<>>
    /\ sent = <<>>
    /\ para = <<>>
    /\ first = <<>>
    /\ formats = 0
    /\ elements = <<>>
    /\ paragraphs = <<>>
    /\ parsed = FALSE
    /\ failures = 0

ClassifyNext ==
    \/ FetchContents
    \/ ParseContents
    \/ ClassifyAnchors
    \/ InsertChapter

SpecClassify == ClassifyInit /\ [][ClassifyNext]_vars

(***************************************************************************)
(* What the properties speak of.                                           *)
(***************************************************************************)
PcsOf(s, pcs) == {k \in DOMAIN tasks[s] : tasks[s][k] \in pcs}

\* A goroutine of the slot has filled the record in.
Populated(s) == PcsOf(s, {"send", "done"}) # {}

\* A goroutine of the slot has completed its send: the chapter is Done.
ChapterDone(s) == PcsOf(s, {"done"}) # {}

SlotSet == {Slots(skeleton)[n] : n \in 1..Len(Slots(skeleton))}

Placeholder(s) == skeleton[s[1]].Chapters[s[2]]

\* The page the site serves for a placeholder's URL.
PageOf(ch) == NewDocument(NormalizeUrl(ch.Url))

LinkFree(e) == e.links = 0

\* The link-free elements of a page in source order, classified and formatted.
Retained(content) ==
    LET kept == SelectSeq(content, LinkFree)
    IN  [j \in 1..Len(kept) |-> Format(Classify(kept[j]))]

RetainedOfSite == [u \in DOMAIN Site |-> Retained(Site[u].content)]

ExpectedParagraphs(ch) ==
    LET u == NormalizeUrl(ch.Url)
    IN  IF u \in DOMAIN Site THEN RetainedOfSite[u] ELSE <<>>

\* The flat document read back: per arc line, the chapter headings under it.
RECURSIVE SectionsFrom(_, _)
SectionsFrom(items, acc) ==
    IF items = <<>> THEN acc
    ELSE LET w == Head(items)
         IN  IF w.k = "arc"
             THEN SectionsFrom(Tail(items),
                               Append(acc, [arc |-> w.s, chapters |-> <<>>]))
             ELSE IF w.k = "heading" /\ acc # <<>>
                  THEN SectionsFrom(Tail(items),
                           [acc EXCEPT ![Len(acc)].chapters = Append(@, w.s)])
                  ELSE SectionsFrom(Tail(items), acc)

Sections(doc) == SectionsFrom(doc, <<>>)

\* The skeleton of the launch, each chapter named by the heading of its page.
SkeletonSections ==
    [a \in 1..Len(skeleton) |->
        [arc |-> skeleton[a].Title,
         chapters |-> [i \in 1..Len(skeleton[a].Chapters) |->
                          PageOf(skeleton[a].Chapters[i]).title]]]

\* The flat document of this run is on disk.
DocumentWritten == mainpc \in {"convert", "exit"} /\ file.exists

\* This run has created Worm.md (and may have converted and removed it).
ArtifactCreated == file \notin {NoFile, OldFile} \/ ebook # ""

(***************************************************************************)
(* Properties.                                                             *)
(***************************************************************************)
\* C1: whatever the interleaving, the completion order and the retries of
\* the chapter goroutines, the arcs of the flat document and the chapters
\* under each arc are in the order of the skeleton as it stood when the
\* goroutines were launched.
C1_OrderFromSkeleton ==
    DocumentWritten => Sections(file.content) = SkeletonSections

\* A written document of two arcs, one chapter of which was retried and
\* another was not.
C1_Witness ==
    /\ mainpc = "convert"
    /\ Len(skeleton) = 2
    /\ \E s \in SlotSet, r \in SlotSet :
          ChapterAt(s).Retries >= 2 /\ ChapterAt(r).Retries = 0 /\ r[1] > s[1]

\* C2: Worm.md is created only when the outstanding count is zero and every
\* launched chapter is Done; a run in which a chapter took the fatal abort
\* never creates or writes it.
C2_ArtifactAfterBarrier ==
    /\ ArtifactCreated =>
          /\ chapters = 0
          /\ DOMAIN tasks = SlotSet
          /\ \A s \in SlotSet : ChapterDone(s) /\ PcsOf(s, Live) = {}
    /\ panicked = "retries" => ~ArtifactCreated /\ file \in {NoFile, OldFile}

\* Worm.md has been created after four chapters, some of them retried.
C2_Witness ==
    /\ mainpc = "write"
    /\ ArtifactCreated
    /\ totalChapters = 4
    /\ failures > 0

\* C3: over the initial goroutine of a chapter and its replacements, one
\* send on done completes if the chapter reaches Done and none otherwise; a
\* failed attempt returns without a send, and the send of the successful
\* attempt comes after all its paragraphs are appended.
C3_OneSignalPerChapter ==
    /\ \A s \in DOMAIN tasks :
          /\ sent[s] = IF ChapterDone(s) THEN 1 ELSE 0
          /\ Cardinality(PcsOf(s, {"retried"})) = ChapterAt(s).Retries
          /\ Cardinality(PcsOf(s, {"send", "done"})) <= 1
          /\ sent[s] = 1 => ChapterAt(s).Paragraphs = ExpectedParagraphs(Placeholder(s))
    /\ done # "nil" => Cardinality({s \in DOMAIN tasks : sent[s] = 1}) = launched - chapters

\* A chapter is Done after three failed attempts while another, also retried,
\* has not signalled.
C3_Witness ==
    \E s \in DOMAIN tasks, r \in DOMAIN tasks :
       /\ sent[s] = 1 /\ ChapterAt(s).Retries = 3
       /\ sent[r] = 0 /\ ChapterAt(r).Retries > 0

\* C4: at most one live goroutine per chapter slot; one goroutine fills a
\* slot in, from the page of that slot's own URL, and until then the slot
\* is the placeholder; the main flow is in the launch loop or at the
\* barrier for as long as a goroutine is live.
C4_SlotOwnership ==
    /\ \A s \in DOMAIN tasks :
          /\ Cardinality(PcsOf(s, Live)) <= 1
          /\ Cardinality(PcsOf(s, {"send", "done"})) <= 1
    /\ mainpc \in {"launch", "barrier", "open", "write", "convert", "exit"} =>
          \A s \in SlotSet :
             /\ ChapterAt(s).Url \in {Placeholder(s).Url, NormalizeUrl(Placeholder(s).Url)}
             /\ IF s \in DOMAIN tasks /\ Populated(s)
                THEN /\ ChapterAt(s).Title = PageOf(Placeholder(s)).title
                     /\ ChapterAt(s).Tags = PageOf(Placeholder(s)).tags
                     /\ ChapterAt(s).DatePosted = PageOf(Placeholder(s)).date
                     /\ ChapterAt(s).Paragraphs = ExpectedParagraphs(Placeholder(s))
                ELSE ChapterAt(s) =
                        [Placeholder(s) EXCEPT !.Url = ChapterAt(s).Url,
                                               !.Retries = ChapterAt(s).Retries]
    /\ (\E s \in DOMAIN tasks : PcsOf(s, Live) # {}) => mainpc \in {"launch", "barrier"}

\* A replacement goroutine is live on a retried slot while another slot is
\* filled in and a third is not yet launched.
C4_Witness ==
    /\ mainpc = "launch"
    /\ \E s \in DOMAIN tasks, r \in DOMAIN tasks :
          /\ ChapterAt(s).Retries > 0 /\ PcsOf(s, {"fetch"}) # {}
          /\ Populated(r)
    /\ launched < Len(Slots(arcs))

\* C5: the retry counter of a chapter at its fatal abort is greater than 3,
\* and no chapter takes the fatal abort more than once.
C5_FatalAbortPastBound ==
    /\ \A s \in DOMAIN tasks :
          /\ Cardinality(PcsOf(s, {"panic"})) <= 1
          /\ PcsOf(s, {"panic"}) # {} =>
                ChapterAt(s).Retries > 3 /\ panicked = "retries"
    /\ panicked = "retries" =>
          Cardinality({s \in DOMAIN tasks : PcsOf(s, {"panic"}) # {}}) = 1

\* A chapter has taken the fatal abort while another chapter is Done.
C5_Witness ==
    \E s \in DOMAIN tasks, r \in DOMAIN tasks :
       PcsOf(s, {"panic"}) # {} /\ ChapterDone(r)

\* C6: Format(Format(s)) = Format(s) for every paragraph s.
C6_FormatIdempotent == formats = 2 => para = first

\* The retained (link-free) elements of the parser run, in source order.
Kept == SelectSeq(elements, LinkFree)

IsCentered(e) == Attr(e, "text-align") = [val |-> "center", exists |-> TRUE]

IsPadded(e) == Attr(e, "padding-left") = [val |-> "30px", exists |-> TRUE]

\* C7, as claimed: every retained element with a centered text-align yields
\* the separator, whatever else it carries.
C7_CenteredIsSeparator ==
    parsed =>
       /\ Len(paragraphs) = Len(Kept)
       /\ \A j \in 1..Len(Kept) : IsCentered(Kept[j]) => paragraphs[j] = Separator

\* C7, amended: every retained element with a centered text-align and
\* without a 30px left padding yields the separator, its content discarded;
\* with the 30px left padding it is the indented block of its content.
C7_CenteredUnpaddedIsSeparator ==
    parsed =>
       /\ Len(paragraphs) = Len(Kept)
       /\ \A j \in 1..Len(Kept) :
             IsCentered(Kept[j]) =>
                paragraphs[j] = IF IsPadded(Kept[j])
                                THEN Format(Indent \o Kept[j].html)
                                ELSE Separator

\* After a navigation paragraph, a centered element with a 10px left padding
\* has become the separator.
C7_Witness ==
    /\ parsed
    /\ Len(elements) = 2 /\ Len(paragraphs) = 1
    /\ IsCentered(elements[2]) /\ PadSmall \in elements[2].attrs
    /\ paragraphs[1] = Separator

\* C8: the paragraphs of a chapter whose record is filled in are the
\* link-free content elements of its page in source order, each classified
\* and formatted, once each whatever the retries; no element that holds a
\* link is among them; before that the chapter has no paragraph.
C8_LinkFreeParagraphs ==
    \A s \in DOMAIN tasks :
       LET content == PageOf(Placeholder(s)).content
           kept == SelectSeq(content, LinkFree)
           ps == ChapterAt(s).Paragraphs
       IN  IF Populated(s)
           THEN /\ Len(ps) = Len(kept)
                /\ Len(ps) = Len(content) - Cardinality({j \in 1..Len(content) : content[j].links > 0})
                /\ ps = ExpectedParagraphs(Placeholder(s))
           ELSE ps = <<>>

\* A chapter is Done after retries, its page holding a navigation paragraph
\* between story paragraphs.
C8_Witness ==
    \E s \in DOMAIN tasks :
       /\ ChapterDone(s) /\ ChapterAt(s).Retries >= 2
       /\ Len(PageOf(Placeholder(s)).content) = 4
       /\ PageOf(Placeholder(s)).content[2].links > 0
       /\ Len(ChapterAt(s).Paragraphs) = 3

\* The arcs with the chapters discovered on the contents page, before the
\* manual insertion.
Discovered == AddChapters(toc.anchors, ParseArcs(toc.text)).arcs

InsertionAttempted ==
    mainpc \notin {"contents", "arcs", "anchors", "insert"} \/ panicked = "insert"

\* C9: the insertion of E.2 lands at index 1 of the epilogue arc, the
\* chapters from index 1 on shifted right by one and none lost, however many
\* epilogue chapters were discovered, zero included.
C9_InsertAtIndexOne ==
    InsertionAttempted =>
       /\ panicked # "insert"
       /\ LET a == WhichArc(MissingTitle, Discovered)
              d == Discovered[a].Chapters
              chs == skeleton[a].Chapters
          IN  /\ Len(chs) = Len(d) + 1
              /\ chs[2] = NewChapter(MissingTitle, MissingUrl)
              /\ \A j \in 1..Len(d) : chs[IF j >= 2 THEN j + 1 ELSE j] = d[j]

ChapterCounts(arcList) == [a \in 1..Len(arcList) |-> Len(arcList[a].Chapters)]

PastLaunch == mainpc \in {"barrier", "open", "write", "convert", "exit"}

\* C10, as claimed: on the contents page of two arcs with anchors 1.1, 1.2
\* and E.1 the chapter counts are [2,1], three goroutines are launched and
\* awaited, and the document has the two arcs in order with their chapters
\* in anchor order.
C10_ThreeChapters ==
    toc = TwoArcs =>
       /\ mainpc = "insert" => ChapterCounts(arcs) = <<2, 1>>
       /\ PastLaunch =>
             /\ ChapterCounts(skeleton) = <<2, 1>>
             /\ totalChapters = 3 /\ Cardinality(DOMAIN tasks) = 3
       /\ DocumentWritten =>
             Sections(file.content) =
                << [arc |-> <<"A","r","c"," ","1",":"," ","G">>, chapters |-> <<PageA.title, PageB.title>>],
                   [arc |-> <<"E","p","i","l","o","g","u","e",":"," ","T">>, chapters |-> <<PageC.title>>] >>

\* C10, amended: the anchors classify into chapter counts [2,1]; with E.2
\* inserted the counts are [2,2], four goroutines are launched and awaited,
\* and the document has the two arcs in order, 1.1 and 1.2 under the first,
\* E.1 and E.2 under the epilogue.
C10_FourChapters ==
    toc = TwoArcs =>
       /\ mainpc = "insert" => ChapterCounts(arcs) = <<2, 1>>
       /\ PastLaunch =>
             /\ ChapterCounts(skeleton) = <<2, 2>>
             /\ totalChapters = 4 /\ Cardinality(DOMAIN tasks) = 4
       /\ DocumentWritten =>
             /\ \A s \in DOMAIN tasks : ChapterDone(s)
             /\ Sections(file.content) =
                   << [arc |-> <<"A","r","c"," ","1",":"," ","G">>, chapters |-> <<PageA.title, PageB.title>>],
                      [arc |-> <<"E","p","i","l","o","g","u","e",":"," ","T">>, chapters |-> <<PageC.title, PageD.title>>] >>

\* The document of the two-arc contents page is written, a chapter of the
\* epilogue having been retried.
C10_Witness ==
    /\ toc = TwoArcs
    /\ mainpc = "convert" /\ file.exists
    /\ ChapterAt(<<2, 1>>).Retries > 0

\* The lines of the contents text that open an arc, trimmed, in text order.
IsMarker(line) == HasPrefix(line, <<"A","r","c">>) \/ HasPrefix(line, <<"E","p","i","l","o","g","u","e">>)

MarkerLines(text) ==
    LET lines == Split(text, "\n")
    IN  SelectSeq([i \in DOMAIN lines |-> TrimSpace(lines[i])], IsMarker)

\* What a chapter title is matched on, and the title an anchor gives.
Key(title) == Replace(SubSeq(title, 1, 2), <<".">>, <<>>)
CleanTitle(s) == Replace(TrimSpace(s.text), <<"\n">>, <<>>)

IsDiscovered(ch) == ch.Url # MissingUrl
DiscoveredIn(a) == SelectSeq(arcs[a].Chapters, IsDiscovered)

\* Where the anchor i of the contents page sits in the arcs.
PlacesOf(i) ==
    LET slots == UNION {{<<a, j>> : j \in DOMAIN arcs[a].Chapters} : a \in DOMAIN arcs}
    IN  {s \in slots : ChapterAt(s).Url = toc.anchors[i].href}

AnchorIndex(url) == CHOOSE i \in DOMAIN toc.anchors : toc.anchors[i].href = url

Classified == mainpc \in {"insert", "launch"} /\ panicked = ""

\* C11: in the skeleton the classifier returns, the arcs are the marker
\* lines in text order; every discovered placeholder sits in exactly one
\* arc, the first whose identifier is the first two characters of its title
\* with "." removed; and within an arc the discovered chapters are in the
\* order of their anchors.  Marker lines may repeat an identifier, carry one
\* of three digits or carry none.
C11_SkeletonShape ==
    Classified =>
       /\ [a \in DOMAIN arcs |-> arcs[a].Title] = MarkerLines(toc.text)
       /\ \A i \in DOMAIN toc.anchors :
             LET title == CleanTitle(toc.anchors[i])
                 home == {a \in DOMAIN arcs : arcs[a].Identifier = Key(title)}
             IN  IF title = <<>> \/ home = {}
                 THEN PlacesOf(i) = {}
                 ELSE /\ Cardinality(PlacesOf(i)) = 1
                      /\ \A p \in PlacesOf(i) :
                            /\ p[1] = Min(home)
                            /\ ChapterAt(p) = NewChapter(title, toc.anchors[i].href)
       /\ \A a \in DOMAIN arcs :
             LET d == DiscoveredIn(a)
             IN  /\ \A j \in DOMAIN d : Key(d[j].Title) = arcs[a].Identifier
                 /\ \A j, k \in DOMAIN d :
                       j < k => AnchorIndex(d[j].Url) < AnchorIndex(d[k].Url)

\* Two marker lines with one identifier: both chapters are in the first.
C11_Witness ==
    /\ Classified
    /\ Len(arcs) = 2 /\ arcs[1].Identifier = arcs[2].Identifier
    /\ arcs[1].Title # arcs[2].Title
    /\ Len(arcs[1].Chapters) = 2 /\ arcs[2].Chapters = <<>>

\* Two documents that agree write for write, except possibly in the text
\* written before an arc title.
SameButPageBreak(d1, d2) ==
    /\ Len(d1) = Len(d2)
    /\ \A i \in DOMAIN d1 :
          /\ d1[i].k = d2[i].k /\ d1[i].s = d2[i].s /\ d1[i].post = d2[i].post
          /\ d1[i].pre # d2[i].pre => d1[i].k = "arc"

\* C12: two runs on the same inputs that differ only in the flag pdf write
\* documents that agree in every heading, paragraph and their order, and
\* differ at most in the text before each arc title; the rest of the
\* difference is in the arguments of the conversion.
C12_PdfOnlyPageBreak ==
    /\ (mainpc = "write" /\ panicked = "") =>
          \A f \in Flags :
             LET g == [f EXCEPT !.pdf = ~f.pdf]
             IN  SameButPageBreak(Assemble(f), Assemble(g))
    /\ mainpc = "exit" =>
          /\ cmdText = CmdText(context.pdf)
          /\ CmdText(context.pdf) # CmdText(~context.pdf)

\* A run with the flag pdf that wrote its document and converted it.
C12_Witness ==
    /\ mainpc = "exit" /\ context.pdf
    /\ cmdText = <<"Worm.md", "-o", "Worm.pdf">>
    /\ ebook = "Worm.pdf"

\* The anchor callback has run over the page, to its end or to a panic.
ClassificationAttempted ==
    mainpc \in {"insert", "launch"} \/ panicked = "title"

\* An anchor with a title that no arc's identifier matches.
Unmatched(i) ==
    LET title == CleanTitle(toc.anchors[i])
    IN  /\ title # <<>>
        /\ \A a \in DOMAIN arcs : arcs[a].Identifier # Key(title)

\* C13: an anchor whose title, of whatever length, a single character
\* included, matches no arc is left out of every arc, the other chapters are
\* classified as without it, and the run goes on.
C13_UnmatchedOmitted ==
    ClassificationAttempted =>
       /\ panicked # "title"
       /\ \A i \in DOMAIN toc.anchors : Unmatched(i) => PlacesOf(i) = {}

\* C14: a run ends abnormally only when a chapter has used up its retries
\* or when the output file already exists; a contents page that cannot be
\* fetched, a page without an epilogue chapter and a malformed title do not
\* end it.
C14_OnlyTwoFatal == panicked \in {"", "retries", "exists"}

\* C15: when Worm.md exists as the write phase starts, the run fails there
\* and the file keeps its content: nothing is written to it, pandoc is not
\* run and the file is not removed.
C15_ExistingFileKept ==
    /\ [](panicked = "exists" =>
            /\ mainpc = "open"
            /\ file = OldFile
            /\ cmdText = <<>> /\ ebook = "")
    /\ [][(mainpc = "open" /\ file.exists) =>
            (panicked' = "exists" /\ file' = file /\ mainpc' = mainpc)]_vars

\* Every chapter was awaited and the file of an earlier run stopped the run.
C15_Witness ==
    /\ panicked = "exists"
    /\ done = "closed" /\ totalChapters = 4
    /\ file.content = <<Text("an earlier Worm.md")>>

\* The whole document of the run: the cover and every arc, under the flags
\* of the run and the page break of line 246.
FlatDocument == Cover \o WriteArcs(arcs, "\n\n", context)

\* C16: pandoc is run once in a run that completes the assembly, and only
\* with the whole document written; when it succeeds Worm.md is removed, and
\* when it fails Worm.md stays with the whole document in it and the run
\* ends without a panic.
C16_ConvertOnceAfterWrite ==
    /\ [](/\ cmdText # <<>> <=> mainpc = "exit"
          /\ mainpc = "convert" => file = [exists |-> TRUE, content |-> FlatDocument]
          /\ mainpc = "exit" =>
                /\ panicked = ""
                /\ IF ebook # ""
                   THEN file = NoFile
                   ELSE file = [exists |-> TRUE, content |-> FlatDocument])
    /\ [][cmdText' # cmdText =>
             /\ mainpc = "convert" /\ mainpc' = "exit"
             /\ cmdText = <<>>
             /\ file = [exists |-> TRUE, content |-> FlatDocument]]_vars

\* pandoc failed: the run is over and Worm.md holds the document.
C16_Witness ==
    /\ mainpc = "exit" /\ ebook = "" /\ cmdText # <<>>
    /\ file.exists /\ Len(file.content) > Len(Cover)

\* The fetches issued for a slot so far, and those of them that failed.
Fetched(s) == PcsOf(s, {"fetch", "retried", "send", "done"})
Failed(s) == PcsOf(s, {"retried"})

\* C17: a chapter's retry counter is the number of its failed fetches: it
\* goes up by one on a failed fetch and changes at no other step, it is
\* never above 4, no fetch is issued with the counter above 3, and no
\* chapter is fetched more than 4 times.
C17_RetriesCountFailures ==
    /\ [](\A s \in DOMAIN tasks :
            /\ ChapterAt(s).Retries = Cardinality(Failed(s))
            /\ ChapterAt(s).Retries <= 4
            /\ Cardinality(Fetched(s)) <= 4
            /\ PcsOf(s, {"fetch"}) # {} => ChapterAt(s).Retries <= 3)
    /\ [][\A s \in DOMAIN tasks :
            ChapterAt(s)'.Retries # ChapterAt(s).Retries =>
               /\ ChapterAt(s)'.Retries = ChapterAt(s).Retries + 1
               /\ \E k \in DOMAIN tasks[s] :
                     tasks[s][k] = "fetch" /\ tasks'[s][k] = "retried"]_vars

\* A chapter whose four fetches all failed.
C17_Witness ==
    \E s \in DOMAIN tasks :
       /\ ChapterAt(s).Retries = 4
       /\ Cardinality(Fetched(s)) = 4 /\ Cardinality(Failed(s)) = 4
       /\ panicked = "retries"

\* Every chain launched so far has reached Done, or the process has aborted.
Settled == panicked # "" \/ \A s \in DOMAIN tasks : ChapterDone(s)

\* C18: with fetches that return and a fair scheduler, every launched chain
\* reaches Done or the process aborts, and a run at the barrier leaves it,
\* with the outstanding count at zero or by the abort; the main flow never
\* waits at the barrier with no goroutine left that can signal or abort.
C18_BarrierIsLeft ==
    /\ []((mainpc = "barrier" /\ panicked = "") =>
             \E s \in DOMAIN tasks : PcsOf(s, Live) # {})
    /\ (tasks # <<>>) ~> Settled
    /\ (mainpc = "barrier") ~> ((mainpc = "open" /\ chapters = 0) \/ panicked # "")

\* The main flow waits for the last signal of a chapter that was retried.
C18_Witness ==
    /\ mainpc = "barrier" /\ panicked = "" /\ chapters = 1
    /\ \E s \in DOMAIN tasks :
          /\ ChapterAt(s).Retries > 0 /\ PcsOf(s, {"fetch"}) # {}
          /\ \A o \in DOMAIN tasks \ {s} : ChapterDone(o)

\* C19: no goroutine sends on done once the main flow has closed it, and
\* none stays blocked on its send: when done is closed every launched
\* chapter has had its one signal received, and as many signals were sent
\* as were received.
C19_NoSendAfterClose ==
    /\ panicked # "closed"
    /\ done = "closed" =>
          /\ DOMAIN tasks = SlotSet
          /\ \A s \in DOMAIN tasks : sent[s] = 1 /\ PcsOf(s, Live) = {}
          /\ Cardinality({s \in DOMAIN tasks : sent[s] = 1}) = totalChapters
          /\ chapters = 0 /\ launched = totalChapters

\* done has just been closed, after four signals and some failed fetches.
C19_Witness ==
    /\ done = "closed" /\ mainpc = "open"
    /\ totalChapters = 4 /\ failures = MaxFailures

\* The record of a slot as the contents page gave it, with the URL the first
\* attempt may have completed.
Untouched(s) ==
    {[p EXCEPT !.Retries = ChapterAt(s).Retries] :
        p \in {Placeholder(s), [Placeholder(s) EXCEPT !.Url = NormalizeUrl(@)]}}

\* C20: a failed fetch changes the retry counter of the chapter record and
\* nothing else, so until a fetch succeeds the record is the placeholder
\* (with its URL completed), and a chapter that is Done, after whatever
\* retries, holds the tags and the paragraphs of its page once each.
C20_FailedFetchFrame ==
    /\ [](\A s \in DOMAIN tasks :
            /\ ~Populated(s) => ChapterAt(s) \in Untouched(s)
            /\ ChapterDone(s) =>
                  /\ ChapterAt(s).Title = PageOf(Placeholder(s)).title
                  /\ ChapterAt(s).Tags = PageOf(Placeholder(s)).tags
                  /\ ChapterAt(s).DatePosted = PageOf(Placeholder(s)).date
                  /\ ChapterAt(s).Paragraphs = ExpectedParagraphs(Placeholder(s)))
    /\ [][\A s \in DOMAIN tasks :
            ChapterAt(s)'.Retries # ChapterAt(s).Retries =>
               ChapterAt(s)' = [ChapterAt(s) EXCEPT !.Retries = @ + 1]]_vars

\* A chapter with tags and paragraphs is Done after three failed fetches.
C20_Witness ==
    \E s \in DOMAIN tasks :
       /\ ChapterDone(s) /\ ChapterAt(s).Retries = 3
       /\ Len(ChapterAt(s).Tags) >= 2 /\ Len(ChapterAt(s).Paragraphs) >= 2

====
